---- MODULE Spec2Model ----
(***************************************************************************)
(* Model of aplicativo_funcional_finalpdf.py: one Streamlit script run     *)
(* (a "processing pass") over an uploaded PDF.  The pass stages the upload *)
(* as temp.pdf, asks Camelot for the tables, validates, normalises and     *)
(* filters each table, concatenates the survivors, shows a summary and     *)
(* offers a download; try/except/finally wraps the whole pass.             *)
(*                                                                         *)
(* Text.  A Python str is a sequence of characters; a character is a       *)
(* one-token string.  "U+0663" stands for ARABIC-INDIC DIGIT THREE, a      *)
(* character of Unicode category Nd that is not an ASCII digit.  The       *)
(* column labels of fixed_header are written without their diacritics.     *)
(***************************************************************************)
EXTENDS Naturals, Sequences, FiniteSets, TLC

VARIABLES
    document,       \* the tables Camelot detects in the uploaded PDF (the input)
    export_format,  \* export_format: the selectbox value once line 126 has read it
    pc,             \* position of the script run
    temp_exists,    \* os.path.exists("temp.pdf")
    tables,         \* tables returned by read_pdf
    idx,            \* enumerate index of the table loop (0-based, as in the code)
    data,           \* the frame named data in the table loop, the payload at export
    df_list,        \* list of processed frames
    final_df,       \* pd.concat(df_list, ignore_index=True)
    progress_bar,   \* value last given to progress_bar.progress, as <<num, den>>
    exc,            \* step whose statement raised, "none" otherwise
    page            \* elements rendered by this run, in order of emission

vars == <<document, export_format, pc, temp_exists, tables, idx, data, df_list,
          final_df, progress_bar, exc, page>>

----------------------------------------------------------------------------
(* Bounds of the explored inputs *)

MaxTables == 2
MaxTotalRows == 4
MaxGridRows == 3
MaxAggRows == 4

----------------------------------------------------------------------------
(* Characters and strings *)

AsciiDigits == {"0", "1", "2", "3", "4", "5", "6", "7", "8", "9"}

\* re, str pattern: \d matches every Unicode decimal digit (category Nd)
UnicodeDigits == AsciiDigits \cup {"U+0663"}

\* re, str pattern: \s; str.strip() strips the same characters
Whitespace == {" ", "\t", "\n"}

\* the missing-value sentinel pd.NA; no raw cell contains this token
NA == <<"pd.NA">>

\* str(x): the text of a cell; str(pd.NA) is the four characters <NA>
Str(x) == IF x = NA THEN <<"<", "N", "A", ">">> ELSE x

RECURSIVE lstrip(_)
lstrip(s) ==
    IF s # <<>> /\ Head(s) \in Whitespace THEN lstrip(Tail(s)) ELSE s

RECURSIVE rstrip(_)
rstrip(s) ==
    IF s # <<>> /\ s[Len(s)] \in Whitespace
    THEN rstrip(SubSeq(s, 1, Len(s) - 1))
    ELSE s

\* str.strip()
strip(s) == rstrip(lstrip(s))

\* re.sub(r'\s+', ' ', s): every maximal run of whitespace becomes one space
RECURSIVE re_sub_spaces(_)
re_sub_spaces(s) ==
    IF s = <<>> THEN <<>>
    ELSE IF Head(s) \in Whitespace
         THEN <<" ">> \o re_sub_spaces(lstrip(Tail(s)))
         ELSE <<Head(s)>> \o re_sub_spaces(Tail(s))

\* the lambda of line 82
NormalizeCell(x) == strip(re_sub_spaces(Str(x)))

\* re.match(r'^\d+$', s): one or more \d, then the end of the string or a
\* final newline ($ also matches just before a trailing "\n")
AllDigits(s) == s # <<>> /\ \A i \in 1..Len(s) : s[i] \in UnicodeDigits

MatchesDigits(s) ==
    \/ AllDigits(s)
    \/ s # <<>> /\ s[Len(s)] = "\n" /\ AllDigits(SubSeq(s, 1, Len(s) - 1))

\* Series.str.match(r'^\d+$', na=False) on one value
str_match(x) == IF x = NA THEN FALSE ELSE MatchesDigits(x)

----------------------------------------------------------------------------
(* Frames: [columns |-> labels, rows |-> rows], a row being a tuple of      *)
(* cells in column order.  A frame straight from Camelot is labelled by    *)
(* position ("0", "1", ...).                                               *)

fixed_header ==
    <<"No TOMB.", "ESPECIFICACAO", "CLASSIFICACAO", "OBSERVACAO",
      "RESPONSAVEL", "LOCALIZACAO">>

NoFrame == [columns |-> <<>>, rows |-> <<>>]

\* df.shape[1]
NCols(df) == Len(df.columns)

\* position of a column label
ColumnIndex(df, label) == CHOOSE i \in 1..Len(df.columns) : df.columns[i] = label

\* df[label] as the sequence of its values
Column(df, label) ==
    [i \in 1..Len(df.rows) |-> df.rows[i][ColumnIndex(df, label)]]

\* df.replace('', pd.NA)
ReplaceEmpty(df) ==
    [df EXCEPT !.rows =
        [i \in 1..Len(df.rows) |->
            [j \in 1..Len(df.rows[i]) |->
                IF df.rows[i][j] = <<>> THEN NA ELSE df.rows[i][j]]]]

\* df.dropna(how='all'): rows whose cells are all missing are removed
DropNaAll(df) ==
    [df EXCEPT !.rows =
        SelectSeq(df.rows, LAMBDA r : \E i \in 1..Len(r) : r[i] # NA)]

\* lines 64-66
CleanFrame(df) == DropNaAll(ReplaceEmpty(df))

\* line 69 with "and" for "or"
TooSmallBoth(df) == Len(df.rows) < 2 /\ NCols(df) < 6

\* line 69 without its column test
TooSmallRowsOnly(df) == Len(df.rows) < 2

\* line 69
TooSmall(df) == Len(df.rows) < 2 \/ NCols(df) < 6

\* line 74 without the slice: the header row stays among the data
DataRowsWithHeader(df) == df

\* line 74: df.iloc[1:].reset_index(drop=True)
DataRows(df) == [df EXCEPT !.rows = SubSeq(df.rows, 2, Len(df.rows))]

\* line 76
WrongWidth(frame) == NCols(frame) # 6

\* line 81
Relabel(frame) == [frame EXCEPT !.columns = fixed_header]

\* line 82: frame.applymap(...)
ApplyNormalize(frame) ==
    [frame EXCEPT !.rows =
        [i \in 1..Len(frame.rows) |->
            [j \in 1..Len(frame.rows[i]) |-> NormalizeCell(frame.rows[i][j])]]]

\* line 85: the rows whose "No TOMB." matches
KeepRow(frame, r) == str_match(r[ColumnIndex(frame, "No TOMB.")])

FilterRows(frame) ==
    [frame EXCEPT !.rows = SelectSeq(frame.rows, LAMBDA r : KeepRow(frame, r))]

\* lines 87-88 without the emptiness test
AppendAlways(list, frame) == Append(list, frame)

\* lines 87-88
AppendFragment(list, frame) ==
    IF frame.rows # <<>> THEN Append(list, frame) ELSE list

\* line 94: pd.concat(df_list, ignore_index=True), all frames having the same columns
RECURSIVE ConcatRows(_)
ConcatRows(list) ==
    IF list = <<>> THEN <<>> ELSE Head(list).rows \o ConcatRows(Tail(list))

\* line 94 followed by drop_duplicates()
RECURSIVE DropDuplicates(_)
DropDuplicates(rows) ==
    IF rows = <<>> THEN <<>>
    ELSE LET front == DropDuplicates(SubSeq(rows, 1, Len(rows) - 1))
             last == rows[Len(rows)]
         IN  IF \E i \in 1..Len(front) : front[i] = last
             THEN front ELSE Append(front, last)

ConcatDropDuplicates(list) ==
    [columns |-> Head(list).columns, rows |-> DropDuplicates(ConcatRows(list))]

Concat(list) == [columns |-> Head(list).columns, rows |-> ConcatRows(list)]

----------------------------------------------------------------------------
(* Summary (lines 96-123) *)

Range(s) == {s[i] : i \in 1..Len(s)}

Take(s, n) == SubSeq(s, 1, IF Len(s) < n THEN Len(s) ELSE n)

\* Series.nunique(): the cells are strings, none is missing
nunique(values) == Cardinality(Range(values))

Occurrences(values, v) == Cardinality({i \in 1..Len(values) : values[i] = v})

\* value_counts(sort=False): the distinct values in any order
ValueCountsUnsorted(values, p) ==
    \A i, j \in 1..Len(p) : i # j => p[i] # p[j]

\* Series.value_counts(): <<value, count>> pairs by descending count.  pandas
\* sorts the counts with sort_values(kind="quicksort"), which is not a stable
\* sort, and documents no order among equal counts: every order of the values
\* that is descending in count is a possible result.
ValueCountsOrder(values, p) ==
    /\ \A i, j \in 1..Len(p) : i # j => p[i] # p[j]
    /\ \A i, j \in 1..Len(p) :
          i < j => Occurrences(values, p[i]) >= Occurrences(values, p[j])

value_counts(values) ==
    LET D == Range(values)
        n == Cardinality(D)
    IN  {[i \in 1..n |-> <<p[i], Occurrences(values, p[i])>>] :
            p \in {q \in [1..n -> D] : ValueCountsOrder(values, q)}}

\* value_counts().index
Index(vc) == [i \in 1..Len(vc) |-> vc[i][1]]

\* sep.join(names)
RECURSIVE join(_, _)
join(sep, names) ==
    IF names = <<>> THEN <<>>
    ELSE IF Len(names) = 1 THEN names[1]
    ELSE names[1] \o sep \o join(sep, Tail(names))

Principais == <<"P", "r", "i", "n", "c", "i", "p", "a", "i", "s", ":", " ">>

\* line 111: the caption text for one result of value_counts()
CaptionText(vc) == Principais \o join(<<",", " ">>, Take(Index(vc), 3))

\* lines 110-111: the caption is written only for more than one responsible
CaptionElements(responsaveis, vc) ==
    IF responsaveis > 1
    THEN <<[kind |-> "caption", text |-> CaptionText(vc)]>>
    ELSE <<>>

\* lines 100-109: the three metrics
MetricElements(df) ==
    <<[kind |-> "metric", label |-> "Total de Registros", value |-> Len(df.rows)],
      [kind |-> "metric", label |-> "Classificacoes Unicas",
       value |-> nunique(Column(df, "CLASSIFICACAO"))],
      [kind |-> "metric", label |-> "Responsaveis Unicos",
       value |-> nunique(Column(df, "RESPONSAVEL"))]>>

\* lines 114-123: the expander with the frame and the two top-10 tables
DetailElements(df, vcClass, vcLoc) ==
    <<[kind |-> "dataframe", frame |-> df],
      [kind |-> "table", label |-> "Classificacoes mais Frequentes",
       rows |-> Take(vcClass, 10)],
      [kind |-> "table", label |-> "Localizacoes mais Comuns",
       rows |-> Take(vcLoc, 10)]>>

----------------------------------------------------------------------------
(* Export (lines 126-147) *)

Formats == {"Excel", "CSV"}

\* csv.QUOTE_MINIMAL: a field holding the delimiter, a quote or a line break
\* is quoted, its quotes doubled
NeedsQuote(c) == \E i \in 1..Len(c) : c[i] \in {",", "\"", "\n", "\r"}

RECURSIVE DoubleQuotes(_)
DoubleQuotes(c) ==
    IF c = <<>> THEN <<>>
    ELSE (IF Head(c) = "\"" THEN <<"\"", "\"">> ELSE <<Head(c)>>)
         \o DoubleQuotes(Tail(c))

CsvField(c) ==
    IF NeedsQuote(c) THEN <<"\"">> \o DoubleQuotes(c) \o <<"\"">> ELSE c

CsvLine(r) == join(<<",">>, [j \in 1..Len(r) |-> CsvField(r[j])]) \o <<"\n">>

RECURSIVE CsvLines(_)
CsvLines(rows) ==
    IF rows = <<>> THEN <<>> ELSE CsvLine(Head(rows)) \o CsvLines(Tail(rows))

\* final_df.to_csv(index=False): the header line, then one line per record.
\* The labels are written as one character each: none needs quoting.
to_csv(df) ==
    join(<<",">>, [j \in 1..Len(df.columns) |-> <<df.columns[j]>>]) \o <<"\n">>
    \o CsvLines(df.rows)

\* final_df.to_excel(writer, index=False): one sheet, the header row, then
\* one row per record
to_excel(df) == [sheet |-> <<df.columns>> \o df.rows]

\* lines 129-140: the payload, its media type and its extension
Payload(df, fmt) ==
    IF fmt = "Excel"
    THEN [data |-> to_excel(df), extension |-> "xlsx",
          mime_type |-> "application/vnd.openxmlformats-officedocument.spreadsheetml.sheet"]
    ELSE [data |-> to_csv(df), extension |-> "csv", mime_type |-> "text/csv"]

\* lines 142-147
DownloadElement(fmt, payload) ==
    [kind |-> "download", label |-> <<"Download em", fmt>>, data |-> payload.data,
     file_name |-> <<"dados_extraidos", payload.extension>>, mime |-> payload.mime_type]

----------------------------------------------------------------------------
(* Inputs: the cell texts, rows and documents explored *)

Empty == <<>>
T12 == <<"1", "2">>
T7 == <<"7">>
Tx == <<"x">>
Chair == <<"C", "h", "a", "i", "r">>
Desk == <<"D", "e", "s", "k">>
Bad == <<"B", "a", "d">>
Furniture == <<"F", "u", "r", "n", "i", "t", "u", "r", "e">>
RowText == <<"R", "o", "w">>
Checked == <<"o", "k">>
Alice == <<"A", "l", "i", "c", "e">>
Bob == <<"B", "o", "b">>
Carol == <<"C", "a", "r", "o", "l">>
Dave == <<"D", "a", "v", "e">>
RoomA == <<"R", "o", "o", "m", "A">>
RoomB == <<"R", "o", "o", "m", "B">>

HeaderRow ==
    <<<<"N", "o">>, <<"E", "s", "p">>, <<"C", "l", "s">>, <<"O", "b", "s">>,
      <<"R", "e", "s", "p">>, <<"L", "o", "c">>>>
Row12 == <<T12, Chair, Furniture, Empty, Alice, RoomA>>
RowX == <<Tx, Bad, RowText, Empty, Bob, RoomB>>
Row7 == <<T7, Desk, Furniture, Checked, Bob, RoomB>>
BlankRow == <<Empty, Empty, Empty, Empty, Empty, Empty>>
NarrowRow == <<T12, Chair, Furniture, Alice, RoomA>>
WideRow == <<T12, Chair, Furniture, Empty, Alice, RoomA, Tx>>

RowPool == {Row12, RowX, Row7, BlankRow}

\* the grid of the scenario: a header row, a record and a row without a number
ScenarioDoc == <<[columns |-> <<"0", "1", "2", "3", "4", "5">>,
                  rows |-> <<HeaderRow, Row12, RowX>>]>>

\* identifiers: empty, digits, a letter, digits inside whitespace, digits
\* around whitespace, a non-ASCII digit, whitespace only
IdPool ==
    {Empty, T12, Tx, <<" ", "1", "2", " ">>, <<"1", " ", " ", "2">>,
     <<"U+0663">>, <<"\t">>}
NotePool == {Empty, <<" ", "a", "\t", " ", "b">>}

RichRowPool ==
    {<<id, Chair, Furniture, note, Alice, RoomA>> : id \in IdPool, note \in NotePool}
    \cup {BlankRow}

AggRowPool ==
    {<<T12, Chair, Furniture, Empty, who, RoomA>> : who \in {Alice, Bob, Carol, Dave}}

PositionLabels == <<"0", "1", "2", "3", "4", "5", "6">>

\* table.df of a detected table with n columns
Grid(n, rows) == [columns |-> SubSeq(PositionLabels, 1, n), rows |-> rows]

\* the grids of k rows: six columns over RowPool, or five, or seven columns
GridsOfRows(k) ==
    {Grid(6, r) : r \in [1..k -> RowPool]}
    \cup {Grid(5, [i \in 1..k |-> NarrowRow]), Grid(7, [i \in 1..k |-> WideRow])}

\* doc is a document that extends prefix by at most t tables and n rows in
\* all, every table with a row
RECURSIVE DocWithin(_, _, _, _)
DocWithin(doc, prefix, t, n) ==
    \/ doc = prefix
    \/ /\ t > 0
       /\ \E k \in 1..n : \E g \in GridsOfRows(k) :
             DocWithin(doc, Append(prefix, g), t - 1, n - k)

\* doc is a document of one six-column table over the rich rows
TableDoc(doc) ==
    \E k \in 1..MaxGridRows : \E r \in [1..k -> RichRowPool] : doc = <<Grid(6, r)>>

\* doc is a document of one table: a header row and records that differ in
\* their responsible
AggDoc(doc) ==
    \E k \in 1..MaxAggRows : \E r \in [1..k -> AggRowPool] :
        doc = <<Grid(6, <<HeaderRow>> \o r)>>

----------------------------------------------------------------------------
(* Page elements *)

SuccessElement(n) == [kind |-> "success", detected |-> n]

\* line 77
StructureWarning(i, ncols) ==
    [kind |-> "warning", message |-> "Estrutura invalida", table |-> i + 1,
     colunas |-> ncols]

\* line 149
EmptyWarning ==
    [kind |-> "warning", message |-> "Nenhum dado valido encontrado apos processamento"]

\* line 152
ErrorElement(e) == [kind |-> "error", message |-> "Erro inesperado", step |-> e]

OfKind(elements, k) == SelectSeq(elements, LAMBDA e : e.kind = k)

----------------------------------------------------------------------------
(* The script run *)

\* the state before the upload
Idle ==
    /\ export_format = "unset"
    /\ pc = "idle"
    /\ temp_exists = FALSE
    /\ tables = <<>>
    /\ idx = 0
    /\ data = NoFrame
    /\ df_list = <<>>
    /\ final_df = NoFrame
    /\ progress_bar = <<0, 1>>
    /\ exc = "none"
    /\ page = <<>>

Init ==
    /\ \/ DocWithin(document, <<>>, MaxTables, MaxTotalRows)
       \/ document = ScenarioDoc
    /\ Idle
InitTable == TableDoc(document) /\ Idle
InitAgg == AggDoc(document) /\ Idle

\* line 38: a file has been uploaded
Upload ==
    /\ pc = "idle"
    /\ pc' = "stage"
    /\ UNCHANGED <<document, export_format, temp_exists, tables, idx, data, df_list,
                   final_df, progress_bar, exc, page>>

\* lines 42-43
StageFile ==
    /\ pc = "stage"
    /\ temp_exists' = TRUE
    /\ pc' = "extract"
    /\ UNCHANGED <<document, export_format, tables, idx, data, df_list, final_df,
                   progress_bar, exc, page>>

\* lines 42-43 raising: open() fails and creates nothing, or write() fails
\* after open() created the file
StageRaises ==
    /\ pc = "stage"
    /\ \E created \in BOOLEAN : temp_exists' = (temp_exists \/ created)
    /\ exc' = "stage"
    /\ pc' = "except"
    /\ UNCHANGED <<document, export_format, tables, idx, data, df_list, final_df,
                   progress_bar, page>>

\* lines 46-61
ExtractTables ==
    /\ pc = "extract"
    /\ tables' = document
    /\ page' = Append(page, SuccessElement(Len(document)))
    /\ df_list' = <<>>
    /\ progress_bar' = <<0, 1>>
    /\ idx' = 0
    /\ pc' = "loop"
    /\ UNCHANGED <<document, export_format, temp_exists, data, final_df, exc>>

\* lines 63-81: a table is cleaned and validated.  A table that is too
\* small or of the wrong width ends its iteration here (continue); the
\* header of line 73 is computed and never used.
ValidateTable ==
    /\ pc = "loop"
    /\ idx < Len(tables)
    /\ LET df == CleanFrame(tables[idx + 1])
       IN  IF TooSmall(df)
           THEN /\ idx' = idx + 1
                /\ UNCHANGED <<pc, data, page>>
           ELSE IF WrongWidth(DataRows(df))
           THEN /\ data' = DataRows(df)
                /\ page' = Append(page, StructureWarning(idx, NCols(DataRows(df))))
                /\ idx' = idx + 1
                /\ UNCHANGED pc
           ELSE /\ data' = Relabel(DataRows(df))
                /\ pc' = "filter"
                /\ UNCHANGED <<idx, page>>
    /\ UNCHANGED <<document, export_format, temp_exists, tables, df_list, final_df,
                   progress_bar, exc>>

\* lines 82-90: the cells are normalised, the rows filtered, the survivors
\* appended and the progress bar advanced
FilterTable ==
    /\ pc = "filter"
    /\ data' = FilterRows(ApplyNormalize(data))
    /\ df_list' = AppendFragment(df_list, data')
    /\ progress_bar' = <<idx + 1, Len(tables)>>
    /\ idx' = idx + 1
    /\ pc' = "loop"
    /\ UNCHANGED <<document, export_format, temp_exists, tables, final_df, exc, page>>

\* lines 93-94 and 148-149, once the loop is over
Combine ==
    /\ pc = "loop"
    /\ idx = Len(tables)
    /\ IF df_list # <<>>
       THEN /\ final_df' = Concat(df_list)
            /\ pc' = "summary"
            /\ UNCHANGED page
       ELSE /\ page' = Append(page, EmptyWarning)
            /\ pc' = "finally"
            /\ UNCHANGED final_df
    /\ UNCHANGED <<document, export_format, temp_exists, tables, idx, data, df_list,
                   progress_bar, exc>>

\* lines 96-123
Summarize ==
    /\ pc = "summary"
    /\ \E vcResp \in value_counts(Column(final_df, "RESPONSAVEL")),
          vcClass \in value_counts(Column(final_df, "CLASSIFICACAO")),
          vcLoc \in value_counts(Column(final_df, "LOCALIZACAO")) :
          page' = page \o MetricElements(final_df)
                       \o CaptionElements(nunique(Column(final_df, "RESPONSAVEL")), vcResp)
                       \o DetailElements(final_df, vcClass, vcLoc)
    /\ pc' = "export"
    /\ UNCHANGED <<document, export_format, temp_exists, tables, idx, data, df_list,
                   final_df, progress_bar, exc>>

\* lines 126-147; the selectbox holds the format the user chose
Export ==
    /\ pc = "export"
    /\ \E selected \in Formats :
          /\ export_format' = selected
          /\ data' = Payload(final_df, selected).data
          /\ page' = Append(page, DownloadElement(selected, Payload(final_df, selected)))
    /\ pc' = "finally"
    /\ UNCHANGED <<document, temp_exists, tables, idx, df_list, final_df,
                   progress_bar, exc>>

\* a statement of the try block after the staging raises: read_pdf, a step
\* of the table loop, pd.concat, the summary or the serialisation
Raise ==
    /\ \/ pc \in {"extract", "filter", "summary", "export"}
       \/ pc = "loop" /\ (idx < Len(tables) \/ df_list # <<>>)
    /\ exc' = pc
    /\ pc' = "except"
    /\ UNCHANGED <<document, export_format, temp_exists, tables, idx, data, df_list,
                   final_df, progress_bar, page>>

\* lines 151-152 going back to the statement that raised
HandleExceptionRetry ==
    /\ pc = "except"
    /\ page' = Append(page, ErrorElement(exc))
    /\ pc' = exc
    /\ UNCHANGED <<document, export_format, temp_exists, tables, idx, data, df_list,
                   final_df, progress_bar, exc>>

\* lines 151-152
HandleException ==
    /\ pc = "except"
    /\ page' = Append(page, ErrorElement(exc))
    /\ pc' = "finally"
    /\ UNCHANGED <<document, export_format, temp_exists, tables, idx, data, df_list,
                   final_df, progress_bar, exc>>

\* lines 154-156 placed at the end of the try block instead of in finally
CleanupOnSuccess ==
    /\ pc = "finally"
    /\ temp_exists' = (IF exc = "none" THEN FALSE ELSE temp_exists)
    /\ pc' = "done"
    /\ UNCHANGED <<document, export_format, tables, idx, data, df_list, final_df,
                   progress_bar, exc, page>>

\* lines 154-156
Cleanup ==
    /\ pc = "finally"
    /\ temp_exists' = (IF temp_exists THEN FALSE ELSE temp_exists)
    /\ pc' = "done"
    /\ UNCHANGED <<document, export_format, tables, idx, data, df_list, final_df,
                   progress_bar, exc, page>>

\* Streamlit runs the script again when a widget changes: a new pass over the
\* same upload, every name of the script unbound again
Rerun ==
    /\ pc = "done"
    /\ export_format' = "unset"
    /\ pc' = "stage"
    /\ tables' = <<>>
    /\ idx' = 0
    /\ data' = NoFrame
    /\ df_list' = <<>>
    /\ final_df' = NoFrame
    /\ progress_bar' = <<0, 1>>
    /\ exc' = "none"
    /\ page' = <<>>
    /\ UNCHANGED <<document, temp_exists>>

Next ==
    \/ Upload
    \/ StageFile
    \/ StageRaises
    \/ ExtractTables
    \/ ValidateTable
    \/ FilterTable
    \/ Combine
    \/ Summarize
    \/ Export
    \/ Raise
    \/ HandleException
    \/ Cleanup
    \/ Rerun

Spec == Init /\ [][Next]_vars
SpecTable == InitTable /\ [][Next]_vars
SpecAgg == InitAgg /\ [][Next]_vars

----------------------------------------------------------------------------
(* Properties.  What a document should yield is stated here over the raw    *)
(* tables, separately from the loop that computes it.                      *)

Errors == OfKind(page, "error")
Warnings == OfKind(page, "warning")
Downloads == OfKind(page, "download")
Captions == OfKind(page, "caption")
Metrics == OfKind(page, "metric")

NonBlank(r) == \E j \in 1..Len(r) : r[j] # <<>>
NonBlankRows(t) == SelectSeq(t.rows, NonBlank)

\* a raw table as the specification describes it: fewer than 2 rows or fewer than 6 columns
RawSmall(t) == Len(t.rows) < 2 \/ Len(t.columns) < 6

\* a table the loop keeps: 2 rows or more once the blank rows are gone, 6 columns
Qualifies(t) == Len(NonBlankRows(t)) >= 2 /\ Len(t.columns) = 6

\* a raw row with its empty cells marked missing
MarkMissing(r) == [j \in 1..Len(r) |-> IF r[j] = <<>> THEN NA ELSE r[j]]

\* the record the loop makes of a raw row
RecordOf(r) == [j \in 1..Len(r) |-> NormalizeCell(MarkMissing(r)[j])]

Survives(r) == MatchesDigits(RecordOf(r)[1])

TableRecords(t) ==
    IF Qualifies(t)
    THEN LET kept == SelectSeq(Tail(NonBlankRows(t)), Survives)
         IN  [i \in 1..Len(kept) |-> RecordOf(kept[i])]
    ELSE <<>>

RECURSIVE ExpectedRecordSet(_)
ExpectedRecordSet(ts) ==
    IF ts = <<>> THEN <<>>
    ELSE ExpectedRecordSet(SubSeq(ts, 1, Len(ts) - 1)) \o TableRecords(ts[Len(ts)])

\* C1: once a processing pass has ended, whatever its outcome, temp.pdf does
\* not exist.
C1_TempFileRemoved == pc = "done" => ~temp_exists

\* a pass that staged the file and then failed in the extraction has ended
C1_Witness == pc = "done" /\ exc = "extract" /\ Len(Errors) = 1 /\ ~temp_exists

\* C7: once a statement of the pass has raised, control is in the handler or
\* past it and never again in a step of the try block (no retry); the pass
\* then shows exactly one error message and offers no download.
C7_ErrorPropagation ==
    /\ exc # "none" => pc \in {"except", "finally", "done"}
    /\ pc = "except" => Len(Errors) = 0 /\ Len(Downloads) = 0
    /\ exc # "none" /\ pc \in {"finally", "done"} =>
          Len(Errors) = 1 /\ Len(Downloads) = 0

\* the serialisation failed after the summary was shown
C7_Witness ==
    pc = "done" /\ exc = "export" /\ Len(Metrics) = 3 /\ Len(Errors) = 1
    /\ Len(Downloads) = 0

\* C8: the RecordSet is the concatenation, in table order, of the surviving
\* rows of each valid table in their row order, duplicates included.
C8_RecordSetOrder ==
    final_df # NoFrame =>
        /\ final_df.columns = fixed_header
        /\ final_df.rows = ExpectedRecordSet(tables)

\* two tables have contributed, the same record twice
C8_Witness ==
    /\ final_df # NoFrame
    /\ Len(df_list) = 2
    /\ Len(final_df.rows) = 2
    /\ final_df.rows[1] = final_df.rows[2]

\* C9: a pass whose tables were all processed without a surviving record
\* ends with the empty-result warning, no error and no download; nothing
\* raises once the loop has ended without a record; a download is offered
\* only for a RecordSet of at least one record.
C9_EmptyResult ==
    /\ pc = "done" /\ exc = "none" /\ ExpectedRecordSet(tables) = <<>> =>
          /\ Warnings # <<>>
          /\ Warnings[Len(Warnings)] = EmptyWarning
          /\ Len(Errors) = 0
          /\ Len(Downloads) = 0
    /\ exc = "loop" => idx < Len(tables) \/ ExpectedRecordSet(tables) # <<>>
    /\ Len(Downloads) > 0 =>
          /\ Len(final_df.rows) >= 1
          /\ ExpectedRecordSet(tables) # <<>>

\* a table passed validation and every one of its rows was filtered out
C9_Witness ==
    /\ pc = "done"
    /\ exc = "none"
    /\ \E k \in 1..Len(tables) : Qualifies(tables[k])
    /\ Warnings = <<EmptyWarning>>
    /\ Len(Downloads) = 0

\* C4: the step of the loop on a table of fewer than 2 rows or fewer than 6
\* columns, unless a statement raises, moves on to the next table and adds
\* no frame, no record and no element (no error, no warning) to the page.
C4_SmallTableSkipped ==
    [][pc = "loop" /\ idx < Len(tables) /\ RawSmall(tables[idx + 1]) =>
          /\ df_list' = df_list
          /\ page' = page
          /\ final_df' = final_df
          /\ \/ pc' = "loop" /\ idx' = idx + 1 /\ exc' = "none"
             \/ pc' = "except" /\ exc' = "loop"]_vars

\* a small first table was passed over and the second table gave the records
C4_Witness ==
    /\ pc = "summary"
    /\ Len(tables) = 2
    /\ RawSmall(tables[1])
    /\ page = <<SuccessElement(2)>>
    /\ final_df.rows = TableRecords(tables[2])
    /\ final_df.rows # <<>>

\* the step of the table loop on tables[idx + 1] that no raise interrupts
ValidationStep == pc = "loop" /\ idx < Len(tables) /\ pc' # "except"

MarkedRows(rows) == [i \in 1..Len(rows) |-> MarkMissing(rows[i])]

\* C3 as stated: every raw table of at least 2 rows and exactly 6 columns
\* passes validation, and the fragment is made of the rows after its first
\* row, in order, under the six fixed names.
C3_AllRowsAfterFirst ==
    [][ValidationStep /\ Len(tables[idx + 1].rows) >= 2
                      /\ Len(tables[idx + 1].columns) = 6 =>
          /\ pc' = "filter"
          /\ data' = [columns |-> fixed_header,
                      rows |-> MarkedRows(Tail(tables[idx + 1].rows))]]_vars

\* C3 (amended): every raw table that has, once its all-empty rows are
\* removed, at least 2 rows and exactly 6 columns passes validation, and the
\* fragment is made of the non-empty rows after the first non-empty row, in
\* their order, under the six fixed names whatever the first row says.
C3_NonBlankRowsAfterFirst ==
    [][ValidationStep /\ Qualifies(tables[idx + 1]) =>
          /\ pc' = "filter"
          /\ idx' = idx
          /\ data' = [columns |-> fixed_header,
                      rows |-> MarkedRows(Tail(NonBlankRows(tables[idx + 1])))]]_vars

\* a table with a blank row passed validation with two different data rows
C3_Witness ==
    /\ pc = "filter"
    /\ \E i \in 1..Len(tables[idx + 1].rows) : ~NonBlank(tables[idx + 1].rows[i])
    /\ data.columns = fixed_header
    /\ Len(data.rows) = 2
    /\ data.rows[1] # data.rows[2]

\* C5 as stated: the step on a table of 5 columns (a header row and data
\* under it) adds the warning naming the table and its 5 columns, and no
\* record.
C5_FiveColumnsWarned ==
    [][ValidationStep /\ Len(tables[idx + 1].columns) = 5
                      /\ Len(NonBlankRows(tables[idx + 1])) >= 2 =>
          /\ page' = Append(page, StructureWarning(idx, 5))
          /\ df_list' = df_list]_vars

\* C5 (amended): the step on a table of 5 columns adds no warning and no
\* record; the warning naming the table and its column count is added for a
\* table of more than 6 columns and at least 2 non-empty rows, which adds no
\* record either.
C5_OnlyWideTablesWarned ==
    [][ValidationStep =>
          /\ Len(tables[idx + 1].columns) = 5 =>
                page' = page /\ df_list' = df_list /\ pc' = "loop" /\ idx' = idx + 1
          /\ Len(tables[idx + 1].columns) > 6
                /\ Len(NonBlankRows(tables[idx + 1])) >= 2 =>
                /\ page' = Append(page, StructureWarning(idx, Len(tables[idx + 1].columns)))
                /\ df_list' = df_list /\ pc' = "loop" /\ idx' = idx + 1]_vars

\* a table of 5 columns, then one of 7: one warning, for the second table
C5_Witness ==
    /\ pc = "loop"
    /\ idx = 2
    /\ Len(tables[1].columns) = 5 /\ Len(tables[1].rows) >= 2
    /\ Len(tables[2].columns) = 7
    /\ df_list = <<>>
    /\ Warnings = <<[kind |-> "warning", message |-> "Estrutura invalida",
                     table |-> 2, colunas |-> 7]>>

AsciiDigitString(s) == s # <<>> /\ \A i \in 1..Len(s) : s[i] \in AsciiDigits

\* the table last handled by the loop went through the filter
Filtered == pc = "loop" /\ idx >= 1 /\ Qualifies(tables[idx])

\* C2: of the rows of a table that passed validation, exactly those whose
\* normalized identifier is one or more ASCII digits are kept, so every
\* record of the RecordSet has an all-ASCII-digit identifier.
C2_AsciiDigitFilter ==
    /\ Filtered =>
          LET rows == Tail(NonBlankRows(tables[idx]))
              records == [i \in 1..Len(rows) |-> RecordOf(rows[i])]
          IN  data.rows = SelectSeq(records, LAMBDA r : AsciiDigitString(r[1]))
    /\ final_df # NoFrame =>
          \A i \in 1..Len(final_df.rows) : AsciiDigitString(final_df.rows[i][1])

\* C6: in every kept row a field whose raw cell was the empty string is the
\* empty string; the scenario grid yields the one record 12, Chair,
\* Furniture, "", Alice, RoomA.
C6_EmptyCellsStayEmpty ==
    /\ Filtered =>
          LET kept == SelectSeq(Tail(NonBlankRows(tables[idx])), Survives)
          IN  /\ Len(data.rows) = Len(kept)
              /\ \A i \in 1..Len(kept) : \A j \in 1..Len(kept[i]) :
                    kept[i][j] = <<>> => data.rows[i][j] = <<>>
    /\ final_df # NoFrame /\ tables = ScenarioDoc => final_df.rows = <<Row12>>

\* the responsible parties of the RecordSet, in record order
Responsibles == [i \in 1..Len(final_df.rows) |-> final_df.rows[i][5]]

Frequency(values, v) == Cardinality({i \in 1..Len(values) : values[i] = v})

FirstSeen(values, v) == CHOOSE i \in 1..Len(values) :
    values[i] = v /\ \A k \in 1..(i - 1) : values[k] # v

Least(a, b) == IF a < b THEN a ELSE b

\* names lists min(3, distinct) different values, a more frequent one never
\* after a less frequent one, and no value left out is more frequent than a
\* listed one
IsTopList(values, names) ==
    LET D == {values[i] : i \in 1..Len(values)}
        L == {names[i] : i \in 1..Len(names)}
    IN  /\ Len(names) = Least(3, Cardinality(D))
        /\ L \subseteq D
        /\ Cardinality(L) = Len(names)
        /\ \A i, j \in 1..Len(names) :
              i < j => Frequency(values, names[i]) >= Frequency(values, names[j])
        /\ \A v \in D \ L : \A w \in L : Frequency(values, v) <= Frequency(values, w)

\* the top list, equal frequencies in order of first appearance
IsFirstSeenTopList(values, names) ==
    /\ IsTopList(values, names)
    /\ \A i, j \in 1..Len(names) :
          i < j /\ Frequency(values, names[i]) = Frequency(values, names[j]) =>
              FirstSeen(values, names[i]) < FirstSeen(values, names[j])
    /\ \A v \in {values[i] : i \in 1..Len(values)} \ {names[i] : i \in 1..Len(names)} :
          \A i \in 1..Len(names) :
              Frequency(values, v) = Frequency(values, names[i]) =>
                  FirstSeen(values, names[i]) < FirstSeen(values, v)

NameLists(values) ==
    UNION {[1..n -> {values[i] : i \in 1..Len(values)}] : n \in 1..3}

CaptionOf(names) == [kind |-> "caption", text |-> Principais \o join(<<",", " ">>, names)]

Summarized == Len(Metrics) = 3

\* C10 as stated: the summary shows the number of distinct responsible
\* parties and the three most frequent ones, by descending frequency and,
\* among equals, in order of first appearance; Alice, Alice, Bob, Carol give
\* 3 and Alice, Bob, Carol.
C10_TopThreeFirstSeen ==
    Summarized =>
        /\ Metrics[3].value = Cardinality({Responsibles[i] : i \in 1..Len(Responsibles)})
        /\ \E names \in NameLists(Responsibles) :
              /\ IsFirstSeenTopList(Responsibles, names)
              /\ Captions = <<CaptionOf(names)>>
        /\ Responsibles = <<Alice, Alice, Bob, Carol>> =>
              Captions = <<CaptionOf(<<Alice, Bob, Carol>>)>>

\* C10 (amended): the summary shows the number of distinct responsible
\* parties; with two or more of them it also shows up to three, the most
\* frequent ones by descending frequency, in an order among equally
\* frequent ones that the code does not fix; with only one it shows no top
\* list.  Alice, Alice, Bob, Carol give 3 and Alice first, then Bob and
\* Carol in either order.
C10_TopThreeWhenSeveral ==
    Summarized =>
        /\ Metrics[3].label = "Responsaveis Unicos"
        /\ Metrics[3].value = Cardinality({Responsibles[i] : i \in 1..Len(Responsibles)})
        /\ IF Metrics[3].value > 1
           THEN \E names \in NameLists(Responsibles) :
                   /\ IsTopList(Responsibles, names)
                   /\ Captions = <<CaptionOf(names)>>
           ELSE Captions = <<>>
        /\ Responsibles = <<Alice, Alice, Bob, Carol>> =>
              /\ Metrics[3].value = 3
              /\ Captions \in {<<CaptionOf(<<Alice, Bob, Carol>>)>>,
                               <<CaptionOf(<<Alice, Carol, Bob>>)>>}

\* the summary of Alice, Alice, Bob, Carol has been shown
C10_Witness ==
    /\ Summarized
    /\ Responsibles = <<Alice, Alice, Bob, Carol>>
    /\ Metrics[3].value = 3
    /\ Len(Captions) = 1

====
